---------------------------- MODULE Spec2Model ----------------------------
(***************************************************************************)
(* Model of scripts/scopus_to_bib.py: the Scopus -> BibTeX exporter.       *)
(*                                                                         *)
(* Python strings are modelled as sequences of one-character strings, so   *)
(* that slugify, lower(), int(), the brace escaping and the f-string       *)
(* formatting are computed character by character as the code does.        *)
(* Python's None is the distinguished value None below.                    *)
(***************************************************************************)
EXTENDS Integers, Sequences, FiniteSets, TLC

-----------------------------------------------------------------------------
(* Bounds of the model *)

MaxAuthors == 2      \* items of SCOPUS_AUTHOR_IDS
MaxOrcids == 1       \* items of SCOPUS_ORCIDS
MaxEids == 2         \* EIDs one ScopusSearch returns
MaxDay == 2          \* days the calendar can advance to
MaxValLen == 2       \* length of a field value in the serializer harness

(* Program constants *)

TitleSlugLen == 30   \* slugify(title)[:30]
SuffixLen == 12      \* slugify(doi)[:12], slugify(eid)[:12]
YearLen == 4         \* coverDate[:4]

-----------------------------------------------------------------------------
(* Python values *)

None == <<"<None>">>

Truthy(v) == v # None /\ v # <<>>

OrEmpty(v) == IF Truthy(v) THEN v ELSE <<>>

Min(a, b) == IF a <= b THEN a ELSE b

Take(s, n) == SubSeq(s, 1, Min(n, Len(s)))

Last(s) == s[Len(s)]

UpperChars == <<"A","B","C","D","E","F","G","H","I","J","K","L","M",
                "N","O","P","Q","R","S","T","U","V","W","X","Y","Z">>

LowerChars == <<"a","b","c","d","e","f","g","h","i","j","k","l","m",
                "n","o","p","q","r","s","t","u","v","w","x","y","z">>

DigitChars == <<"0","1","2","3","4","5","6","7","8","9">>

\* The characters of the model in code-point order (ASCII).
CharOrder == <<"\n", " ", "%", "&", "+", ",", "-", ".", "/">> \o DigitChars
             \o <<":", "=", "?", "@">> \o UpperChars \o <<"\\", "_">>
             \o LowerChars \o <<"{", "}">>

Range(s) == {s[i] : i \in DOMAIN s}

IndexIn(c, s) == CHOOSE i \in DOMAIN s : s[i] = c

Ord(c) == IndexIn(c, CharOrder)

SpaceChars == {" ", "\n"}

IsUpper(c) == c \in Range(UpperChars)
IsDigit(c) == c \in Range(DigitChars)
IsSpace(c) == c \in SpaceChars
IsWord(c) == c \in Range(UpperChars) \cup Range(LowerChars)
                   \cup Range(DigitChars) \cup {"_"}

LowerChar(c) == IF IsUpper(c) THEN LowerChars[IndexIn(c, UpperChars)] ELSE c

\* str.lower()
Lower(s) == [i \in DOMAIN s |-> LowerChar(s[i])]

RECURSIVE LStrip(_, _)
LStrip(s, chars) ==
    IF s # <<>> /\ s[1] \in chars THEN LStrip(Tail(s), chars) ELSE s

RECURSIVE RStrip(_, _)
RStrip(s, chars) ==
    IF s # <<>> /\ Last(s) \in chars
    THEN RStrip(SubSeq(s, 1, Len(s) - 1), chars)
    ELSE s

\* str.strip(): whitespace off both ends
Strip(s) == RStrip(LStrip(s, SpaceChars), SpaceChars)

\* str.strip("-")
StripHyphens(s) == RStrip(LStrip(s, {"-"}), {"-"})

\* str < str, by code points
RECURSIVE StrLess(_, _)
StrLess(a, b) ==
    IF b = <<>> THEN FALSE
    ELSE IF a = <<>> THEN TRUE
    ELSE IF a[1] = b[1] THEN StrLess(Tail(a), Tail(b))
    ELSE Ord(a[1]) < Ord(b[1])

\* str.split(): the whitespace-separated words
RECURSIVE SplitWords(_, _, _)
SplitWords(s, cur, acc) ==
    IF s = <<>> THEN (IF cur = <<>> THEN acc ELSE Append(acc, cur))
    ELSE IF IsSpace(s[1])
         THEN SplitWords(Tail(s), <<>>, IF cur = <<>> THEN acc ELSE Append(acc, cur))
         ELSE SplitWords(Tail(s), Append(cur, s[1]), acc)

Split(s) == SplitWords(s, <<>>, <<>>)

RECURSIVE Join(_, _)
Join(parts, sep) ==
    IF parts = <<>> THEN <<>>
    ELSE IF Len(parts) = 1 THEN parts[1]
    ELSE parts[1] \o sep \o Join(Tail(parts), sep)

-----------------------------------------------------------------------------
(* slugify *)

IsSlugKept(c) == IsWord(c) \/ IsSpace(c) \/ c = "-"

IsSlugSep(c) == IsSpace(c) \/ c = "_" \/ c = "-"

\* re.sub(r"[\s_-]+", "-", text)
RECURSIVE CollapseRuns(_, _)
CollapseRuns(s, inRun) ==
    IF s = <<>> THEN <<>>
    ELSE IF IsSlugSep(s[1])
         THEN (IF inRun THEN <<>> ELSE <<"-">>) \o CollapseRuns(Tail(s), TRUE)
         ELSE <<s[1]>> \o CollapseRuns(Tail(s), FALSE)

slugify(text) ==
    CollapseRuns(Lower(Strip(SelectSeq(OrEmpty(text), IsSlugKept))), FALSE)

-----------------------------------------------------------------------------
(* date.today() *)

TwoDigits(n) == <<DigitChars[(n \div 10) + 1], DigitChars[(n % 10) + 1]>>

\* date.today().strftime('%Y%m%d') on day d of the month
DateYmd(d) == <<"2","0","2","6","1","1">> \o TwoDigits(d)

\* date.today().isoformat()
DateIso(d) == <<"2","0","2","6","-","1","1","-">> \o TwoDigits(d)

-----------------------------------------------------------------------------
(* make_citekey *)

FirstAuthorSlug(rec) ==
    IF rec.authors # <<>> THEN slugify(Last(Split(rec.authors[1]))) ELSE <<>>

CitekeyBase(rec) ==
    StripHyphens(FirstAuthorSlug(rec) \o OrEmpty(rec.year)
                 \o Take(slugify(rec.title), TitleSlugLen))

\* the date is appended whenever the record has neither DOI nor EID
make_citekey_DatedBase(rec, day) ==
    IF Truthy(rec.doi)
    THEN CitekeyBase(rec) \o <<"_">> \o Take(slugify(rec.doi), SuffixLen)
    ELSE IF Truthy(rec.eid)
    THEN CitekeyBase(rec) \o <<"_">> \o Take(slugify(rec.eid), SuffixLen)
    ELSE CitekeyBase(rec) \o <<"r","e","f">> \o DateYmd(day)

make_citekey(rec, day) ==
    IF Truthy(rec.doi)
    THEN CitekeyBase(rec) \o <<"_">> \o Take(slugify(rec.doi), SuffixLen)
    ELSE IF Truthy(rec.eid)
    THEN CitekeyBase(rec) \o <<"_">> \o Take(slugify(rec.eid), SuffixLen)
    ELSE IF CitekeyBase(rec) # <<>> THEN CitekeyBase(rec)
    ELSE <<"r","e","f">> \o DateYmd(day)

-----------------------------------------------------------------------------
(* to_bibtex *)

\* v.replace("{", "\\{").replace("}", "\\}")
RECURSIVE EscapeBraces(_)
EscapeBraces(v) ==
    IF v = <<>> THEN <<>>
    ELSE (IF v[1] \in {"{", "}"} THEN <<"\\", v[1]>> ELSE <<v[1]>>)
         \o EscapeBraces(Tail(v))

\* only a None value is left out (`if v is not None`)
add_KeepsEmpty(fields, k, v) ==
    IF v # None THEN Append(fields, [k |-> k, v |-> EscapeBraces(v)])
    ELSE fields

\* add(k, v): the list of fields after the call
add(fields, k, v) ==
    IF Truthy(v) THEN Append(fields, [k |-> k, v |-> EscapeBraces(v)])
    ELSE fields

S_title == <<"t","i","t","l","e">>
S_author == <<"a","u","t","h","o","r">>
S_year == <<"y","e","a","r">>
S_journal == <<"j","o","u","r","n","a","l">>
S_booktitle == <<"b","o","o","k","t","i","t","l","e">>
S_volume == <<"v","o","l","u","m","e">>
S_number == <<"n","u","m","b","e","r">>
S_pages == <<"p","a","g","e","s">>
S_doi == <<"d","o","i">>
S_url == <<"u","r","l">>
S_article == <<"a","r","t","i","c","l","e">>
S_inproceedings == <<"i","n","p","r","o","c","e","e","d","i","n","g","s">>

BibFields(rec) ==
    LET f1 == add(<<>>, S_title, rec.title)
        f2 == add(f1, S_author, Join(rec.authors, <<" ","a","n","d"," ">>))
        f3 == add(f2, S_year, rec.year)
        f4 == IF rec.entry_type = S_article
              THEN add(f3, S_journal, rec.venue)
              ELSE add(f3, S_booktitle, rec.venue)
        f5 == add(f4, S_volume, rec.volume)
        f6 == add(f5, S_number, rec.number)
        f7 == add(f6, S_pages, rec.pages)
        f8 == add(f7, S_doi, rec.doi)
    IN  add(f8, S_url, rec.url)

\* f"  {k} = {{{v}}}"
FieldLine(f) == <<" ", " ">> \o f.k \o <<" ", "=", " ", "{">> \o f.v \o <<"}">>

FieldLines(fields) == [i \in DOMAIN fields |-> FieldLine(fields[i])]

to_bibtex(rec, day) ==
    LET citekey == IF Truthy(rec.citekey) THEN rec.citekey
                   ELSE make_citekey(rec, day)
    IN  <<"@">> \o rec.entry_type \o <<"{">> \o citekey \o <<",", "\n">>
        \o Join(FieldLines(BibFields(rec)), <<",", "\n">>)
        \o <<"\n", "}", "\n">>

-----------------------------------------------------------------------------
(* get_env_list *)

\* str.split(","): the pieces between the commas (always at least one)
RECURSIVE SplitComma(_, _)
SplitComma(s, cur) ==
    IF s = <<>> THEN <<cur>>
    ELSE IF s[1] = "," THEN <<cur>> \o SplitComma(Tail(s), <<>>)
    ELSE SplitComma(Tail(s), Append(cur, s[1]))

StripAll(parts) == [i \in DOMAIN parts |-> Strip(parts[i])]

NonEmpty(x) == x # <<>>

get_env_list(v) ==
    IF Strip(v) = <<>> THEN <<>>
    ELSE SelectSeq(StripAll(SplitComma(Strip(v), <<>>)), NonEmpty)

-----------------------------------------------------------------------------
(* sorted(set) *)

MinStr(S) == CHOOSE x \in S : \A y \in S : y = x \/ StrLess(x, y)

RECURSIVE sorted(_)
sorted(S) ==
    IF S = {} THEN <<>> ELSE <<MinStr(S)>> \o sorted(S \ {MinStr(S)})

-----------------------------------------------------------------------------
(* record_from_abstract *)

S_conference == <<"c","o","n","f","e","r","e","n","c","e">>
S_proceedings == <<"p","r","o","c","e","e","d","i","n","g","s">>
S_url_head == <<"h","t","t","p","s",":","/","/","w","w","w",".","s","c","o","p","u","s",".","c","o","m","/","r","e","c","o","r","d","/","d","i","s","p","l","a","y",".","u","r","i","?","e","i","d","=">>
S_url_tail == <<"&","o","r","i","g","i","n","=","r","e","s","u","l","t","s","l","i","s","t">>
S_None == <<"N","o","n","e">>

\* sub in s
Contains(s, sub) ==
    \E i \in 0..(Len(s) - Len(sub)) : SubSeq(s, i + 1, i + Len(sub)) = sub

EntryTypeOf(ab) ==
    IF Truthy(ab.aggregationType)
       /\ (Contains(Lower(ab.aggregationType), S_conference)
           \/ Contains(Lower(ab.aggregationType), S_proceedings))
    THEN S_inproceedings
    ELSE S_article

FullName(a) == Strip(OrEmpty(a.given_name) \o <<" ">> \o OrEmpty(a.surname))

FullNames(as) == [i \in DOMAIN as |-> FullName(as[i])]

\* ab.authors is a list here: the code reads a None as [] (`or []`)
AuthorNames(ab) == SelectSeq(FullNames(ab.authors), NonEmpty)

YearOf(ab) ==
    IF Take(OrEmpty(ab.coverDate), YearLen) = <<>> THEN None
    ELSE Take(OrEmpty(ab.coverDate), YearLen)

UrlOf(ab) ==
    S_url_head \o (IF ab.eid = None THEN S_None ELSE ab.eid) \o S_url_tail

RecordFields(ab) ==
    [entry_type |-> EntryTypeOf(ab),
     title |-> ab.title,
     year |-> YearOf(ab),
     doi |-> ab.doi,
     venue |-> ab.publicationName,
     volume |-> ab.volume,
     number |-> ab.issueIdentifier,
     pages |-> ab.pageRange,
     authors |-> AuthorNames(ab),
     eid |-> ab.eid,
     url |-> UrlOf(ab),
     citekey |-> None]

record_from_abstract(ab, day) ==
    [RecordFields(ab) EXCEPT !.citekey = make_citekey(RecordFields(ab), day)]

-----------------------------------------------------------------------------
(* The DOI pass and the sort of main() *)

DoiKey(r) == Lower(OrEmpty(r.doi))

\* the DOIs are compared as they are, not lowercased
RECURSIVE DoiPass_CaseSensitive(_, _)
DoiPass_CaseSensitive(rs, seen_doi) ==
    IF rs = <<>> THEN <<>>
    ELSE IF OrEmpty(rs[1].doi) # <<>> /\ OrEmpty(rs[1].doi) \in seen_doi
         THEN DoiPass_CaseSensitive(Tail(rs), seen_doi)
         ELSE <<rs[1]>> \o DoiPass_CaseSensitive(Tail(rs),
                  IF OrEmpty(rs[1].doi) # <<>>
                  THEN seen_doi \cup {OrEmpty(rs[1].doi)}
                  ELSE seen_doi)

\* lines 169-177: the records kept, given the DOIs seen so far
RECURSIVE DoiPass(_, _)
DoiPass(rs, seen_doi) ==
    IF rs = <<>> THEN <<>>
    ELSE IF DoiKey(rs[1]) # <<>> /\ DoiKey(rs[1]) \in seen_doi
         THEN DoiPass(Tail(rs), seen_doi)
         ELSE <<rs[1]>> \o DoiPass(Tail(rs),
                  IF DoiKey(rs[1]) # <<>> THEN seen_doi \cup {DoiKey(rs[1])}
                  ELSE seen_doi)

RECURSIVE DigitsValue(_, _)
DigitsValue(s, acc) ==
    IF s = <<>> THEN acc
    ELSE IF s[1] = "_" THEN DigitsValue(Tail(s), acc)
    ELSE DigitsValue(Tail(s), 10 * acc + (IndexIn(s[1], DigitChars) - 1))

\* the digit part int() accepts: digits, single underscores between them
IsIntBody(b) ==
    /\ b # <<>>
    /\ IsDigit(b[1]) /\ IsDigit(Last(b))
    /\ \A i \in DOMAIN b : IsDigit(b[i]) \/ b[i] = "_"
    /\ \A i \in 1..(Len(b) - 1) : ~(b[i] = "_" /\ b[i + 1] = "_")

IsSigned(t) == t # <<>> /\ t[1] \in {"+", "-"}

IntBody(t) == IF IsSigned(t) THEN Tail(t) ELSE t

\* int(s) raises ValueError unless IntParses(s)
IntParses(s) == IsIntBody(IntBody(Strip(s)))

IntOf(s) ==
    IF Strip(s)[1] = "-" THEN 0 - DigitsValue(IntBody(Strip(s)), 0)
    ELSE DigitsValue(IntBody(Strip(s)), 0)

\* y of sort_key: int(r.get("year") or 0), 0 on an exception
YearInt(r) ==
    IF ~Truthy(r.year) THEN 0
    ELSE IF IntParses(r.year) THEN IntOf(r.year)
    ELSE 0

\* the year is not negated: oldest first
sort_key_Ascending(r) == <<YearInt(r), Lower(OrEmpty(r.title))>>

sort_key(r) == <<0 - YearInt(r), Lower(OrEmpty(r.title))>>

\* tuple comparison of two sort keys
KeyLess(k1, k2) == k1[1] < k2[1] \/ (k1[1] = k2[1] /\ StrLess(k1[2], k2[2]))

\* list.sort(key=sort_key) is stable: an element goes in front of the first
\* one with a strictly larger key
RECURSIVE InsertByKey(_, _)
InsertByKey(sortedRs, r) ==
    IF sortedRs = <<>> THEN <<r>>
    ELSE IF KeyLess(sort_key(r), sort_key(sortedRs[1])) THEN <<r>> \o sortedRs
    ELSE <<sortedRs[1]>> \o InsertByKey(Tail(sortedRs), r)

RECURSIVE SortByKey(_)
SortByKey(rs) ==
    IF rs = <<>> THEN <<>>
    ELSE InsertByKey(SortByKey(SubSeq(rs, 1, Len(rs) - 1)), Last(rs))

-----------------------------------------------------------------------------
(* The file main() writes *)

S_header == <<"%"," ","G","e","n","e","r","a","t","e","d"," ","f","r","o","m"," ","S","c","o","p","u","s"," ","o","n"," ">>

RECURSIVE Entries(_, _)
Entries(rs, day) ==
    IF rs = <<>> THEN <<>>
    ELSE to_bibtex(rs[1], day) \o <<"\n">> \o Entries(Tail(rs), day)

FileText(rs, day) == S_header \o DateIso(day) \o <<"\n", "\n">> \o Entries(rs, day)

-----------------------------------------------------------------------------
(* The inputs of the model: environment, Scopus answers *)

\* all sequences over S of length at most n
SeqUpTo(S, n) == UNION {[1..k -> S] : k \in 0..n}

\* an item of SCOPUS_AUTHOR_IDS
IdItems == {<<"1">>}

\* comma-separated items of SCOPUS_ORCIDS
OrcidItems == {<<"0","-","1">>}

\* Scopus document identifiers; the first two agree on the first 12
\* characters of their slug
EIDS == {<<"2","-","s","2",".","0","-","8","5","0","1","2","3","4","5","0","1">>, <<"2","-","s","2",".","0","-","8","5","0","1","2","3","4","5","0","2">>, <<"2","-","s","2",".","0","-","7","7">>}

Jane == [given_name |-> <<"J","a","n","e">>, surname |-> <<"D","o","e">>]
Roe == [given_name |-> None, surname |-> <<"R","o","e">>]

NoAbstract ==
    [aggregationType |-> None, authors |-> <<>>, publicationName |-> None,
     pageRange |-> None, title |-> None, coverDate |-> None, doi |-> None,
     volume |-> None, issueIdentifier |-> None, eid |-> None]

\* The documents AbstractRetrieval can answer with
Catalog ==
    { [NoAbstract EXCEPT !.aggregationType = <<"J","o","u","r","n","a","l">>, !.authors = <<Jane>>,
          !.publicationName = <<"J">>, !.title = <<"B", "{">>,
          !.coverDate = <<"2","0","2","1","-","0","5","-","0","1">>, !.doi = <<"1","0",".","1","/","X">>, !.volume = <<"1">>],
      [NoAbstract EXCEPT !.aggregationType = <<"C","o","n","f","e","r","e","n","c","e"," ","P","r","o","c","e","e","d","i","n","g">>, !.authors = <<Jane, Roe>>,
          !.publicationName = <<"P">>, !.pageRange = <<"1", "-", "2">>,
          !.title = <<"a">>, !.coverDate = <<"2","0","2","0">>, !.doi = <<"1","0",".","1","/","x">>,
          !.issueIdentifier = <<"3">>],
      [NoAbstract EXCEPT !.title = <<"a">>],
      [NoAbstract EXCEPT !.aggregationType = <<"J","o","u","r","n","a","l">>, !.authors = <<Jane>>,
          !.publicationName = <<"J">>, !.title = <<"B", "{">>,
          !.coverDate = <<"2","0","2","1","-","0","5","-","0","1">>, !.doi = <<"1","0",".","1","/",".","X">>, !.volume = <<"1">>],
      [NoAbstract EXCEPT !.authors = <<Roe>>, !.title = <<"B">>,
          !.coverDate = <<"a","b","c","d">>, !.doi = <<>>] }

\* What one AbstractRetrieval of the resolver can give: an exception, or
\* the author list of the document (a None list is read as [], `or []`)
ResolverDocs ==
    { [ok |-> FALSE, authors |-> <<>>],
      [ok |-> TRUE, authors |-> <<>>],
      [ok |-> TRUE, authors |-> <<[orcid |-> <<"0","-","1">>, auid |-> <<"2">>],
                                  [orcid |-> <<"0","-","2">>, auid |-> <<"1">>]>>],
      [ok |-> TRUE, authors |-> <<[orcid |-> <<"0","-","1">>, auid |-> <<"1">>],
                                  [orcid |-> None, auid |-> <<"3">>]>>],
      [ok |-> TRUE, authors |-> <<[orcid |-> <<"0","-","2">>, auid |-> None]>>] }

\* the content of publications.bib left by an earlier run
OldFile == <<"o", "l", "d">>

-----------------------------------------------------------------------------
(* map_orcid_to_auid *)

DocAuids(orcid, doc) ==
    IF ~doc.ok THEN {}
    ELSE {doc.authors[i].auid : i \in {j \in DOMAIN doc.authors :
              doc.authors[j].orcid = orcid /\ Truthy(doc.authors[j].auid)}}

\* docs: the answers to the AbstractRetrieval calls, one per EID of the search
map_orcid_to_auid(orcid, docs) ==
    sorted(UNION {DocAuids(orcid, docs[i]) : i \in DOMAIN docs})

-----------------------------------------------------------------------------
(* State *)

VARIABLES
    env_ids,        \* os.getenv("SCOPUS_AUTHOR_IDS")
    env_orcids,     \* os.getenv("SCOPUS_ORCIDS")
    today,          \* date.today(), as the day of the month
    pc,             \* where main() is
    author_ids,     \* main: author_ids
    orcids,         \* main: orcids
    oi,             \* index of the for loop over orcids
    mapped,         \* main: mapped
    last_mapped,    \* what the last call of map_orcid_to_auid returned
    resolver_calls, \* calls of map_orcid_to_auid
    resolver_docs,  \* has map_orcid_to_auid called AbstractRetrieval?
    ai,             \* index of the for loop over author_ids
    ei,             \* EIDs of the current author's search taken so far
    seen_eids,      \* main: seen_eids
    recs,           \* main: recs
    warnings,       \* the EIDs of the [WARN] lines printed
    attempts,       \* AbstractRetrieval calls of main's loop, per EID
    uniq,           \* main: uniq
    out_file,       \* content of publications.bib, None if it does not exist
    p_pc,           \* harness: where the caller of the pure functions is
    p_rec,          \* harness: the record the functions are called on
    key1,           \* harness: result of the first make_citekey call
    day1,           \* harness: the day of the first call
    key2,           \* harness: result of the second make_citekey call
    day2,           \* harness: the day of the second call
    bib_fields,     \* harness: the fields list of to_bibtex
    bib             \* harness: result of to_bibtex

run_vars == <<env_ids, env_orcids, pc, author_ids, orcids, oi, mapped,
              last_mapped, resolver_calls, resolver_docs, ai, ei,
              seen_eids, recs, warnings, attempts, uniq, out_file>>

pure_vars == <<p_pc, p_rec, key1, day1, key2, day2, bib_fields, bib>>

vars == <<run_vars, pure_vars, today>>

-----------------------------------------------------------------------------
(* main() *)

RunIdle ==
    /\ env_ids = <<>> /\ env_orcids = <<>>
    /\ pc = "idle"
    /\ author_ids = <<>> /\ orcids = <<>>
    /\ oi = 1 /\ mapped = {} /\ last_mapped = <<>>
    /\ resolver_calls = 0 /\ resolver_docs = FALSE
    /\ ai = 1 /\ ei = 0
    /\ seen_eids = {} /\ recs = <<>> /\ warnings = <<>>
    /\ attempts = [e \in EIDS |-> 0]
    /\ uniq = <<>>
    /\ out_file = None

PureIdle ==
    /\ p_pc = "idle"
    /\ p_rec = None
    /\ key1 = None /\ key2 = None
    /\ day1 = 0 /\ day2 = 0
    /\ bib_fields = <<>> /\ bib = None

Init ==
    \* the items, separated by ", " and closed by a comma: "1, 1,"
    /\ \E items \in SeqUpTo(IdItems, MaxAuthors) :
           env_ids = Join(items, <<",", " ">>) \o <<",">>
    /\ \E items \in SeqUpTo(OrcidItems, MaxOrcids) :
           env_orcids = Join(items, <<",">>)
    /\ today = 1
    /\ pc = "start"
    /\ author_ids = <<>> /\ orcids = <<>>
    /\ oi = 1 /\ mapped = {} /\ last_mapped = <<>>
    /\ resolver_calls = 0 /\ resolver_docs = FALSE
    /\ ai = 1 /\ ei = 0
    /\ seen_eids = {} /\ recs = <<>> /\ warnings = <<>>
    /\ attempts = [e \in EIDS |-> 0]
    /\ uniq = <<>>
    /\ out_file \in {None, OldFile}
    /\ PureIdle

\* the ORCIDs are resolved whenever there are some (`if orcids:`)
ReadEnv_AlwaysResolves ==
    /\ pc = "start"
    /\ author_ids' = get_env_list(env_ids)
    /\ orcids' = get_env_list(env_orcids)
    /\ oi' = 1
    /\ mapped' = {}
    /\ pc' = IF get_env_list(env_orcids) # <<>> THEN "resolve" ELSE "check"
    /\ UNCHANGED <<env_ids, env_orcids, last_mapped, resolver_calls,
                   resolver_docs, ai, ei, seen_eids, recs, warnings,
                   attempts, uniq, out_file, pure_vars, today>>

\* lines 134-137: read the environment, decide whether to resolve ORCIDs
ReadEnv ==
    /\ pc = "start"
    /\ author_ids' = get_env_list(env_ids)
    /\ orcids' = get_env_list(env_orcids)
    /\ oi' = 1
    /\ mapped' = {}
    /\ pc' = IF get_env_list(env_ids) = <<>> /\ get_env_list(env_orcids) # <<>>
             THEN "resolve" ELSE "check"
    /\ UNCHANGED <<env_ids, env_orcids, last_mapped, resolver_calls,
                   resolver_docs, ai, ei, seen_eids, recs, warnings,
                   attempts, uniq, out_file, pure_vars, today>>

\* lines 140-141: one iteration of `for oc in orcids`
MapOrcid ==
    /\ pc = "resolve"
    /\ oi <= Len(orcids)
    /\ \E docs \in SeqUpTo(ResolverDocs, MaxEids) :
          /\ last_mapped' = map_orcid_to_auid(orcids[oi], docs)
          /\ mapped' = mapped \cup Range(map_orcid_to_auid(orcids[oi], docs))
          /\ resolver_docs' = (resolver_docs \/ docs # <<>>)
    /\ resolver_calls' = resolver_calls + 1
    /\ oi' = oi + 1
    /\ UNCHANGED <<env_ids, env_orcids, pc, author_ids, orcids, ai, ei, seen_eids, recs, warnings, attempts, uniq, out_file,
                   pure_vars, today>>

\* line 142.  mapped and the value map_orcid_to_auid returned are not read
\* after this line: the model drops them.
ResolveDone ==
    /\ pc = "resolve"
    /\ oi > Len(orcids)
    /\ author_ids' = sorted(mapped)
    /\ mapped' = {}
    /\ last_mapped' = <<>>
    /\ pc' = "check"
    /\ UNCHANGED <<env_ids, env_orcids, orcids, oi, resolver_calls,
                   resolver_docs, ai, ei, seen_eids, recs, warnings, attempts,
                   uniq, out_file, pure_vars, today>>

\* lines 144-148: raise SystemExit
AbortNoAuthors ==
    /\ pc = "check"
    /\ author_ids = <<>>
    /\ pc' = "aborted"
    /\ UNCHANGED <<env_ids, env_orcids, author_ids, orcids, oi, mapped,
                   last_mapped, resolver_calls, resolver_docs, ai, ei,
                   seen_eids, recs, warnings, attempts, uniq, out_file,
                   pure_vars, today>>

\* lines 151-152
BeginFetch ==
    /\ pc = "check"
    /\ author_ids # <<>>
    /\ seen_eids' = {}
    /\ recs' = <<>>
    /\ ai' = 1
    /\ pc' = "author"
    /\ UNCHANGED <<env_ids, env_orcids, author_ids, orcids, oi, mapped,
                   last_mapped, resolver_calls, resolver_docs, ei,
                   warnings, attempts, uniq, out_file, pure_vars, today>>

\* lines 154-155: eids = collect_eids_for_author(auid).  The search is
\* taken to answer; an exception of ScopusSearch is not caught by main().
CollectEids ==
    /\ pc = "author"
    /\ ai <= Len(author_ids)
    /\ ei' = 0
    /\ pc' = "eids"
    /\ UNCHANGED <<env_ids, env_orcids, author_ids, orcids, oi, mapped,
                   last_mapped, resolver_calls, resolver_docs, ai, seen_eids, recs, warnings, attempts, uniq, out_file,
                   pure_vars, today>>

\* lines 156-166: one iteration of `for eid in eids`.  The list is the answer
\* of an external service: its elements are drawn when the loop reaches
\* them, at most MaxEids of them.

\* lines 157-158: continue
SkipSeen ==
    /\ pc = "eids"
    /\ ei < MaxEids
    /\ \E eid \in EIDS : eid \in seen_eids
    /\ ei' = ei + 1
    /\ UNCHANGED <<env_ids, env_orcids, pc, author_ids, orcids, oi, mapped,
                   last_mapped, resolver_calls, resolver_docs, ai,
                   seen_eids, recs, warnings, attempts, uniq, out_file,
                   pure_vars, today>>

\* the EID is fetched without looking at seen_eids
FetchOk_NoSeenCheck ==
    /\ pc = "eids"
    /\ ei < MaxEids
    /\ \E eid \in EIDS, ab \in Catalog :
          /\ seen_eids' = seen_eids \cup {eid}
          /\ attempts' = [attempts EXCEPT ![eid] = @ + 1]
          /\ recs' = Append(recs,
                            record_from_abstract([ab EXCEPT !.eid = eid], today))
    /\ ei' = ei + 1
    /\ UNCHANGED <<env_ids, env_orcids, pc, author_ids, orcids, oi, mapped,
                   last_mapped, resolver_calls, resolver_docs, ai,
                   warnings, uniq, out_file, pure_vars, today>>

\* lines 159-163: the document is fetched and normalized; the document
\* Scopus returns carries the EID it was asked for
FetchOk ==
    /\ pc = "eids"
    /\ ei < MaxEids
    /\ \E eid \in EIDS, ab \in Catalog :
          /\ eid \notin seen_eids
          /\ seen_eids' = seen_eids \cup {eid}
          /\ attempts' = [attempts EXCEPT ![eid] = @ + 1]
          /\ recs' = Append(recs,
                            record_from_abstract([ab EXCEPT !.eid = eid], today))
    /\ ei' = ei + 1
    /\ UNCHANGED <<env_ids, env_orcids, pc, author_ids, orcids, oi, mapped,
                   last_mapped, resolver_calls, resolver_docs, ai,
                   warnings, uniq, out_file, pure_vars, today>>

\* the exception is not caught: it ends main()
FetchFail_Raises ==
    /\ pc = "eids"
    /\ ei < MaxEids
    /\ \E eid \in EIDS :
          /\ eid \notin seen_eids
          /\ seen_eids' = seen_eids \cup {eid}
          /\ attempts' = [attempts EXCEPT ![eid] = @ + 1]
    /\ pc' = "aborted"
    /\ UNCHANGED <<env_ids, env_orcids, author_ids, orcids, oi, mapped,
                   last_mapped, resolver_calls, resolver_docs, ai, ei,
                   recs, warnings, uniq, out_file, pure_vars, today>>

\* the EID is added to seen_eids only after a successful fetch
FetchFail_NotMarkedSeen ==
    /\ pc = "eids"
    /\ ei < MaxEids
    /\ \E eid \in EIDS :
          /\ eid \notin seen_eids
          /\ attempts' = [attempts EXCEPT ![eid] = @ + 1]
          /\ warnings' = Append(warnings, eid)
    /\ ei' = ei + 1
    /\ UNCHANGED <<env_ids, env_orcids, pc, author_ids, orcids, oi, mapped,
                   last_mapped, resolver_calls, resolver_docs, ai, seen_eids,
                   recs, uniq, out_file, pure_vars, today>>

\* lines 159-166: AbstractRetrieval or record_from_abstract raises
FetchFail ==
    /\ pc = "eids"
    /\ ei < MaxEids
    /\ \E eid \in EIDS :
          /\ eid \notin seen_eids
          /\ seen_eids' = seen_eids \cup {eid}
          /\ attempts' = [attempts EXCEPT ![eid] = @ + 1]
          /\ warnings' = Append(warnings, eid)
    /\ ei' = ei + 1
    /\ UNCHANGED <<env_ids, env_orcids, pc, author_ids, orcids, oi, mapped,
                   last_mapped, resolver_calls, resolver_docs, ai,
                   recs, uniq, out_file, pure_vars, today>>

\* line 154: the search result is exhausted, next auid
NextAuthor ==
    /\ pc = "eids"
    /\ ai' = ai + 1
    /\ pc' = "author"
    /\ UNCHANGED <<env_ids, env_orcids, author_ids, orcids, oi, mapped,
                   last_mapped, resolver_calls, resolver_docs, ei,
                   seen_eids, recs, warnings, attempts, uniq, out_file,
                   pure_vars, today>>

\* lines 169-177
DedupDoi ==
    /\ pc = "author"
    /\ ai > Len(author_ids)
    /\ uniq' = DoiPass(recs, {})
    /\ pc' = "sort"
    /\ UNCHANGED <<env_ids, env_orcids, author_ids, orcids, oi, mapped,
                   last_mapped, resolver_calls, resolver_docs, ai, ei,
                   seen_eids, recs, warnings, attempts, out_file, pure_vars,
                   today>>

\* lines 180-187
Sort ==
    /\ pc = "sort"
    /\ uniq' = SortByKey(uniq)
    /\ pc' = "write"
    /\ UNCHANGED <<env_ids, env_orcids, author_ids, orcids, oi, mapped,
                   last_mapped, resolver_calls, resolver_docs, ai, ei,
                   seen_eids, recs, warnings, attempts, out_file, pure_vars,
                   today>>

\* lines 190-197
Write ==
    /\ pc = "write"
    /\ out_file' = FileText(uniq, today)
    /\ pc' = "done"
    /\ UNCHANGED <<env_ids, env_orcids, author_ids, orcids, oi, mapped,
                   last_mapped, resolver_calls, resolver_docs, ai, ei,
                   seen_eids, recs, warnings, attempts, uniq, pure_vars, today>>

Next ==
    \/ ReadEnv
    \/ MapOrcid
    \/ ResolveDone
    \/ AbortNoAuthors
    \/ BeginFetch
    \/ CollectEids
    \/ SkipSeen
    \/ FetchOk
    \/ FetchFail
    \/ NextAuthor
    \/ DedupDoi
    \/ Sort
    \/ Write

\* A run of main().  The day does not change during a run: the date goes
\* into the header line only, since every fetched record has an EID.
Spec == Init /\ [][Next]_vars

-----------------------------------------------------------------------------
(* A caller of make_citekey and to_bibtex: the functions are applied to one
   record, make_citekey twice, possibly on different days *)

\* characters of a title: a letter, an opening brace, a backslash
ValChars == {"a", "{", "\\"}

Titles == SeqUpTo(ValChars, MaxValLen) \cup {None}

\* volume, number, pages, url
Extras ==
    { <<None, None, None, None>>,
      <<<<"1">>, None, None, None>>,
      <<None, <<"2">>, <<"3", "-", "4">>, None>>,
      <<<<>>, None, <<"5">>, <<"u">>>> }

PureRecords ==
    { [entry_type |-> t, title |-> ti, year |-> y, doi |-> d, venue |-> v,
       volume |-> x[1], number |-> x[2], pages |-> x[3], authors |-> a,
       eid |-> e, url |-> x[4], citekey |-> None] :
        t \in {S_article, S_inproceedings},
        ti \in Titles,
        y \in {None, <<"2","0","2","1">>},
        d \in {None, <<>>, <<"1","0",".","1","/","X">>},
        v \in {None, <<"J", "}">>},
        x \in Extras,
        a \in {<<>>, <<<<"J","a","n","e"," ","D","o","e">>, <<"R"," ","R","o","e">>>>},
        e \in {None, <<"2","-","s","2",".","0","-","7","7">>} }

PureInit ==
    /\ RunIdle
    /\ today = 1
    /\ p_pc = "ready"
    /\ p_rec \in PureRecords
    /\ key1 = None /\ key2 = None
    /\ day1 = 0 /\ day2 = 0
    /\ bib_fields = <<>> /\ bib = None

\* first call of make_citekey
CallCitekey ==
    /\ p_pc = "ready"
    /\ key1' = make_citekey(p_rec, today)
    /\ day1' = today
    /\ p_pc' = "keyed"
    /\ UNCHANGED <<run_vars, p_rec, key2, day2, bib_fields, bib, today>>

\* the calendar day changes between two calls
Midnight ==
    /\ p_pc \in {"ready", "keyed", "keyed2"}
    /\ today < MaxDay
    /\ today' = today + 1
    /\ UNCHANGED <<run_vars, pure_vars>>

\* second call of make_citekey on the same record
CallCitekeyAgain ==
    /\ p_pc = "keyed"
    /\ key2' = make_citekey(p_rec, today)
    /\ day2' = today
    /\ p_pc' = "keyed2"
    /\ UNCHANGED <<run_vars, p_rec, key1, day1, bib_fields, bib, today>>

\* to_bibtex on the record
CallToBibtex ==
    /\ p_pc = "keyed2"
    /\ bib_fields' = BibFields(p_rec)
    /\ bib' = to_bibtex(p_rec, today)
    /\ p_pc' = "done"
    /\ UNCHANGED <<run_vars, p_rec, key1, day1, key2, day2, today>>

PureNext ==
    \/ CallCitekey
    \/ Midnight
    \/ CallCitekeyAgain
    \/ CallToBibtex

PureSpec == PureInit /\ [][PureNext]_vars

-----------------------------------------------------------------------------
(* Properties of a run of main() *)

\* the elements of s at the indices in I, in the order of s
RECURSIVE SubseqAt(_, _, _)
SubseqAt(s, I, k) ==
    IF k > Len(s) THEN <<>>
    ELSE (IF k \in I THEN <<s[k]>> ELSE <<>>) \o SubseqAt(s, I, k + 1)

\* position of record r in the fetch order
FetchPos(r) == CHOOSE k \in DOMAIN recs : recs[k] = r

Written == pc = "done"

\* C1: the record list main() builds never holds two records fetched for
\* the same EID, however often the searches return that EID; neither does
\* the list that is written.
C1_OneRecordPerEid ==
    /\ \A i, j \in DOMAIN recs : i # j => recs[i].eid # recs[j].eid
    /\ \A i, j \in DOMAIN uniq : i # j => uniq[i].eid # uniq[j].eid
    /\ \A i \in DOMAIN recs : recs[i].eid \in seen_eids

\* an EID came back a second time for the first author and was skipped
C1_Witness ==
    /\ pc = "eids" /\ ai = 1
    /\ ei > Cardinality(seen_eids)
    /\ recs # <<>>

LowerDoi(r) == Lower(IF Truthy(r.doi) THEN r.doi ELSE <<>>)

FirstOfItsDoi(i) == \A j \in 1..(i - 1) : LowerDoi(recs[j]) # LowerDoi(recs[i])

\* C2: after the DOI pass uniq is recs without every record whose non-empty
\* lowercased DOI occurred earlier in fetch order; a record without DOI
\* stays; no two records that remain share a non-empty lowercased DOI.
C2_DoiPass ==
    /\ pc = "sort" =>
          uniq = SubseqAt(recs, {i \in DOMAIN recs :
                                   LowerDoi(recs[i]) = <<>> \/ FirstOfItsDoi(i)}, 1)
    /\ pc \in {"sort", "write", "done"} =>
          /\ \A i, j \in DOMAIN uniq :
                (i # j /\ LowerDoi(uniq[i]) # <<>>)
                    => LowerDoi(uniq[i]) # LowerDoi(uniq[j])
          /\ \A i \in DOMAIN recs :
                LowerDoi(recs[i]) = <<>> => \E k \in DOMAIN uniq : uniq[k] = recs[i]

\* a later record with the same DOI in another case was dropped, and records
\* with an empty and with an absent DOI went through
C2_Witness ==
    /\ pc = "sort"
    /\ \E i, j \in DOMAIN recs :
          /\ i < j
          /\ recs[i].doi # recs[j].doi
          /\ LowerDoi(recs[i]) = LowerDoi(recs[j])
          /\ LowerDoi(recs[i]) # <<>>
    /\ Len(uniq) = Len(recs) - 1
    /\ \E i \in DOMAIN recs : recs[i].doi \in {None, <<>>}

\* the year a record is ordered by: 0 when missing or not an integer
OrderYear(r) == IF Truthy(r.year) /\ IntParses(r.year) THEN IntOf(r.year) ELSE 0

OrderTitle(r) == Lower(IF Truthy(r.title) THEN r.title ELSE <<>>)

\* C3: in the written list a record with a greater year comes first, equal
\* years are in order of the lowercased title, a missing or unparseable year
\* counts as 0, and records equal on both keep their fetch order.
C3_Ordering ==
    pc \in {"write", "done"} =>
        \A i, j \in DOMAIN uniq :
            /\ OrderYear(uniq[i]) > OrderYear(uniq[j]) => i < j
            /\ (OrderYear(uniq[i]) = OrderYear(uniq[j])
                /\ StrLess(OrderTitle(uniq[i]), OrderTitle(uniq[j]))) => i < j
            /\ (OrderYear(uniq[i]) = OrderYear(uniq[j])
                /\ OrderTitle(uniq[i]) = OrderTitle(uniq[j])
                /\ FetchPos(uniq[i]) < FetchPos(uniq[j])) => i < j

\* the sort moved a newer record to the front, two records tie on both keys,
\* one has a year that is no integer, and two of the same year were ordered
\* by titles whose raw order is the opposite of their lowercased order
C3_Witness ==
    /\ pc = "done"
    /\ \E i, j \in DOMAIN uniq :
          /\ i < j
          /\ OrderYear(uniq[i]) > OrderYear(uniq[j])
          /\ FetchPos(uniq[i]) > FetchPos(uniq[j])
    /\ \E i, j \in DOMAIN uniq :
          /\ i < j
          /\ OrderYear(uniq[i]) = OrderYear(uniq[j])
          /\ Truthy(uniq[j].year) /\ ~IntParses(uniq[j].year)
          /\ StrLess(OrderTitle(uniq[i]), OrderTitle(uniq[j]))
          /\ StrLess(uniq[j].title, uniq[i].title)

\* C4: two written records with different DOIs or different EIDs never have
\* the same citekey.
C4_CitekeyUnique ==
    Written =>
        \A i, j \in DOMAIN uniq :
            (i # j /\ (uniq[i].doi # uniq[j].doi \/ uniq[i].eid # uniq[j].eid))
                => uniq[i].citekey # uniq[j].citekey

Failed(e) == \E k \in DOMAIN warnings : warnings[k] = e

FailuresContained ==
    /\ pc = "aborted" => (author_ids = <<>> /\ \A e \in EIDS : attempts[e] = 0)
    /\ \A e \in EIDS :
          attempts[e] > 0 =>
              /\ Cardinality({k \in DOMAIN warnings : warnings[k] = e})
                     = (IF \E i \in DOMAIN recs : recs[i].eid = e THEN 0 ELSE 1)
              /\ Cardinality({i \in DOMAIN recs : recs[i].eid = e}) <= 1
    /\ \A k \in DOMAIN warnings : attempts[warnings[k]] > 0
    /\ Written =>
          /\ out_file = FileText(uniq, today)
          /\ \A i \in DOMAIN recs :
                \/ \E k \in DOMAIN uniq : uniq[k] = recs[i]
                \/ \E j \in 1..(i - 1) :
                      /\ LowerDoi(recs[j]) = LowerDoi(recs[i])
                      /\ LowerDoi(recs[i]) # <<>>
                      /\ \E k \in DOMAIN uniq : uniq[k] = recs[j]
          /\ \A k \in DOMAIN uniq : \E i \in DOMAIN recs : recs[i] = uniq[k]

\* a step that prints a warning leaves the loop where a successful fetch
\* leaves it: same author, next EID, the records untouched
WarningStep ==
    warnings' # warnings =>
        /\ pc = "eids" /\ pc' = "eids"
        /\ ai' = ai /\ ei' = ei + 1
        /\ author_ids' = author_ids
        /\ recs' = recs
        /\ Len(warnings') = Len(warnings) + 1

\* C5: a fetch failure never aborts the run: once an author identifier is
\* known the run does not abort, a failed fetch only adds a warning and
\* the loop goes on with the next EID; every failed document has exactly
\* one warning, every other attempted document has a record, and a record
\* is missing from the written list only when an earlier one with its DOI
\* is there.
C5_FailureIsSkipped == []FailuresContained /\ [][WarningStep]_vars

\* a run with a failed document and a fetched one wrote the file
C5_Witness ==
    /\ Written
    /\ warnings # <<>>
    /\ uniq # <<>>
    /\ Len(recs) + Len(warnings) = Cardinality(EIDS)

IsAscending(s) == \A i, j \in DOMAIN s : i < j => StrLess(s[i], s[j])

NoIdsSupplied == get_env_list(env_ids) = <<>>

FileUntouched == out_file \in {None, OldFile}

ResolverClauses ==
    /\ resolver_calls > 0 => NoIdsSupplied
    /\ IsAscending(last_mapped)
    /\ (pc = "check" /\ resolver_calls > 0) => IsAscending(author_ids)

AbortsWhenNoAuthor ==
    /\ pc = "aborted" =>
          /\ NoIdsSupplied
          /\ author_ids = <<>>
          /\ FileUntouched
    /\ pc \in {"author", "eids", "sort", "write", "done"} => author_ids # <<>>
    /\ ~FileUntouched => Written

\* C6 as stated: the run aborts before any document is fetched, by the
\* resolver or by the record loop.
C6_AbortBeforeAnyFetch ==
    /\ AbortsWhenNoAuthor
    /\ ResolverClauses
    /\ pc = "aborted" => (~resolver_docs /\ \A e \in EIDS : attempts[e] = 0)

\* C6 amended: when no author identifier is determined the run aborts before
\* the record loop fetches any document (the resolver may have fetched
\* documents) and the file is neither created nor overwritten; the resolver
\* runs only when no internal id is supplied; its result is ascending and
\* duplicate-free.
C6_AbortBeforeRecordFetch ==
    /\ AbortsWhenNoAuthor
    /\ ResolverClauses
    /\ pc = "aborted" => (recs = <<>> /\ \A e \in EIDS : attempts[e] = 0)

\* ORCIDs were given, the resolver fetched documents, found no author
\* identifier, and the run aborted
C6_Witness ==
    /\ pc = "aborted"
    /\ resolver_calls > 0
    /\ resolver_docs

-----------------------------------------------------------------------------
(* Properties of to_bibtex and make_citekey *)

Braces == {"{", "}"}

\* the brace at position i of s has no backslash in front of it
Unescaped(s, i) == s[i] \in Braces /\ ~(i > 1 /\ s[i - 1] = "\\")

\* unescaped opening minus unescaped closing braces among the first k
\* characters of s
Depth(s, k) ==
    Cardinality({i \in 1..k : s[i] = "{" /\ Unescaped(s, i)})
    - Cardinality({i \in 1..k : s[i] = "}" /\ Unescaped(s, i)})

FirstBrace(s) == CHOOSE i \in DOMAIN s : s[i] = "{" /\ \A j \in 1..(i - 1) : s[j] # "{"

\* the first brace of s is closed by its last character and not before
ClosedAtEnd(s) ==
    /\ Depth(s, Len(s)) = 0
    /\ \A k \in FirstBrace(s)..(Len(s) - 1) : Depth(s, k) >= 1

EveryBraceEscaped(v) ==
    \A i \in DOMAIN v : v[i] \in Braces => (i > 1 /\ v[i - 1] = "\\")

\* C7: in the entry to_bibtex returns every brace of a field value has a
\* backslash in front of it, and, counting only braces that have none, every
\* field line "  k = {v}" is closed by its last brace and the entry by its
\* own last brace.
C7_EscapedAndBalanced ==
    p_pc = "done" =>
        /\ \A i \in DOMAIN bib_fields : EveryBraceEscaped(bib_fields[i].v)
        /\ \A i \in DOMAIN bib_fields : ClosedAtEnd(FieldLine(bib_fields[i]))
        /\ ClosedAtEnd(SubSeq(bib, 1, Len(bib) - 1))

FieldOrder(rec) ==
    <<S_title, S_author, S_year,
      IF rec.entry_type = S_article THEN S_journal ELSE S_booktitle,
      S_volume, S_number, S_pages, S_doi, S_url>>

\* the value the record has for the i-th field of the order
FieldValue(rec, i) ==
    CASE i = 1 -> rec.title
      [] i = 2 -> Join(rec.authors, <<" ", "a", "n", "d", " ">>)
      [] i = 3 -> rec.year
      [] i = 4 -> rec.venue
      [] i = 5 -> rec.volume
      [] i = 6 -> rec.number
      [] i = 7 -> rec.pages
      [] i = 8 -> rec.doi
      [] i = 9 -> rec.url

HasValue(rec, i) == FieldValue(rec, i) # None /\ Len(FieldValue(rec, i)) > 0

FieldKeys(fields) == [i \in DOMAIN fields |-> fields[i].k]

NewLines(s) == Cardinality({i \in DOMAIN s : s[i] = "\n"})

\* C8: to_bibtex emits exactly the fields whose value is non-empty, in the
\* order title, author, year, journal or booktitle, volume, number, pages,
\* doi, url, the venue as journal for an article and as booktitle otherwise,
\* and no line for an empty or absent value.
C8_FieldOrder ==
    p_pc = "done" =>
        /\ FieldKeys(bib_fields)
              = SubseqAt(FieldOrder(p_rec),
                         {i \in 1..9 : HasValue(p_rec, i)}, 1)
        /\ \A i \in DOMAIN bib_fields : bib_fields[i].v # <<>>
        /\ ~(\E i, j \in DOMAIN bib_fields :
                bib_fields[i].k = S_journal /\ bib_fields[j].k = S_booktitle)
        /\ NewLines(bib) = (IF bib_fields = <<>> THEN 3 ELSE Len(bib_fields) + 2)
        /\ ~Contains(bib, <<"=", " ", "{", "}">>)

\* a conference record with an empty title, an empty volume, a venue and
\* pages went through to_bibtex
C8_Witness ==
    /\ p_pc = "done"
    /\ p_rec.entry_type = S_inproceedings
    /\ p_rec.title = <<>>
    /\ p_rec.volume = <<>>
    /\ Truthy(p_rec.venue) /\ Truthy(p_rec.pages)
    /\ p_rec.doi = None

Called2 == p_pc \in {"keyed2", "done"}

\* C9 as stated: two calls of make_citekey on the same record give the same
\* key, whenever they are made.
C9_SameKeyAnyDay == Called2 => key1 = key2

HasKeyMaterial(rec) ==
    Truthy(rec.doi) \/ Truthy(rec.eid) \/ CitekeyBase(rec) # <<>>

\* C9 amended: two calls of make_citekey on the same record give the same
\* key if the record has a DOI, an EID or a non-empty author/year/title
\* base, or if both calls are made on the same day; for a record with none
\* of these the key is "ref" followed by the date of the call.
C9_SameKeyUnlessDated ==
    Called2 =>
        /\ (HasKeyMaterial(p_rec) \/ day1 = day2) => key1 = key2
        /\ ~HasKeyMaterial(p_rec) =>
              /\ key1 = <<"r", "e", "f">> \o DateYmd(day1)
              /\ key2 = <<"r", "e", "f">> \o DateYmd(day2)

\* a record without DOI and EID was keyed on two different days, from its
\* title alone
C9_Witness ==
    /\ Called2
    /\ day1 # day2
    /\ ~Truthy(p_rec.doi) /\ ~Truthy(p_rec.eid)
    /\ p_rec.authors = <<>> /\ p_rec.year = None
    /\ key1 = key2

=============================================================================
